---- MODULE Spec2Model ----
(***************************************************************************)
(* Row-level data permission (filter_data_permission) and menu             *)
(* authorization (rbac_verify) of the admin backend.                       *)
(*                                                                         *)
(* Strings that the code splits or compares (rule values, menu perms,      *)
(* required permission codes) are sequences of one-character strings, so   *)
(* that str.split(',') is computed and not assumed.  Names of entities and *)
(* columns, which the code only tests for membership, stay TLA+ strings.   *)
(***************************************************************************)
EXTENDS Integers, Sequences, FiniteSets, TLC

VARIABLES
    rules,        \* sys_data_rule: rule id -> [model, column, operator, expression, value]
    scope_rules,  \* sys_data_scope_rule: scope id -> set of rule ids (DataScope.rules)
    user,         \* request.user: the principal snapshot attached to the request
    request,      \* request: [path, auth_scopes, method, permission]
    settings,     \* settings: [RBAC_ROLE_MENU_MODE, DATA_PERMISSION_MODELS]
    db_reads,     \* scope ids fetched from the store by the running call
    result,       \* outcome of the call: [kind |-> "none" | "return" | "raise", ...]
    store,        \* sys_user_role, sys_role (with sys_role_menu, sys_role_data_scope), sys_data_scope
    cache,        \* redis: user id of the key '<JWT_USER_REDIS_PREFIX>:<id>' -> cached snapshot
    tx,           \* the administrative operation in flight: its transaction and outcome
    route         \* the route serving the request: its declared code and its dependencies

vars == <<rules, scope_rules, user, request, settings, db_reads, result, store, cache, tx,
          route>>

\* the state of the administration services
admin_vars == <<store, cache, tx>>

----------------------------------------------------------------------------
(* Bounds of the model *)

MaxRoles == 2        \* roles held by the principal
MaxScopes == 2       \* data scopes in the store
MaxRoleScopes == 1   \* scopes attached to one role
MaxScopeRules == 2   \* rules attached to one scope
MaxMenus == 2        \* menus in the store
MaxRoleMenus == 1    \* menus attached to one role

ScopeIds == 1..MaxScopes
MenuIds == 1..MaxMenus

----------------------------------------------------------------------------
(* Enumerations and settings *)

AND == 0
OR == 1

eq == 0
ne == 1
gt == 2
ge == 3
lt == 4
le == 5
in_ == 6
not_in == 7

disable == 0
enable == 1

\* the keys of settings.DATA_PERMISSION_MODELS as conf.py sets them
DATA_PERMISSION_MODELS == {"department"}

DATA_PERMISSION_COLUMN_EXCLUDE == {"id", "sort", "del_flag", "created_time", "updated_time"}

\* model_ins.__table__.columns.keys() of the entity an allow-listed name resolves to
TableColumns(model) ==
    IF model = "department"
    THEN {"id", "name", "sort", "leader", "phone", "email", "status", "del_flag",
          "parent_id", "created_time", "updated_time"}
    ELSE IF model = "user"
    THEN {"id", "uuid", "username", "nickname", "password", "salt", "email", "phone",
          "avatar", "status", "is_superuser", "is_staff", "is_multi_login", "join_time",
          "last_login_time", "dept_id", "created_time", "updated_time"}
    ELSE {}

----------------------------------------------------------------------------
(* Strings as sequences of characters *)

Ord(c) ==
    CASE c = "," -> 44
      [] c = "0" -> 48
      [] c = "1" -> 49
      [] c = "2" -> 50
      [] c = "3" -> 51
      [] c = ":" -> 58
      [] c = "a" -> 97
      [] c = "b" -> 98
      [] c = "c" -> 99
      [] OTHER -> 0

RECURSIVE StrLess(_, _)
StrLess(s, t) ==
    IF t = <<>> THEN FALSE
    ELSE IF s = <<>> THEN TRUE
    ELSE IF Ord(Head(s)) # Ord(Head(t)) THEN Ord(Head(s)) < Ord(Head(t))
    ELSE StrLess(Tail(s), Tail(t))

\* str.split(','): the list of the segments between commas
RECURSIVE Split(_)
Split(s) ==
    IF \A i \in 1..Len(s) : s[i] # ","
    THEN <<s>>
    ELSE LET i == CHOOSE k \in 1..Len(s) : s[k] = "," /\ \A j \in 1..(k - 1) : s[j] # ","
         IN  <<SubSeq(s, 1, i - 1)>> \o Split(SubSeq(s, i + 1, Len(s)))

\* an optional string: None, or the string value
None == [set |-> FALSE, value |-> <<>>]

Str(s) == [set |-> TRUE, value |-> s]

\* truth value of an optional string: None and '' are falsy
Truthy(x) == x.set /\ x.value # <<>>

Range(f) == {f[i] : i \in DOMAIN f}

Perms(S) == {f \in [1..Cardinality(S) -> S] : \A i, j \in 1..Cardinality(S) : f[i] = f[j] => i = j}

----------------------------------------------------------------------------
(* Compiled predicates (sqlalchemy ColumnElement[bool]) as trees *)

\* or_(1 == 1)
TruePredicate == [kind |-> "true"]

and_(clauses) == [kind |-> "and", args |-> clauses]

or_(clauses) == [kind |-> "or", args |-> clauses]

\* model.column <op> value; values is the operand list of in_/not_in and <<>> otherwise
Comparison(model, column, op, value, values) ==
    [kind |-> "cmp", model |-> model, column |-> column, op |-> op, value |-> value,
     values |-> values]

\* What a comparison selects: row is a function from column names to strings
EvalComparison(c, row) ==
    LET v == row[c.column] IN
    CASE c.op = eq -> v = c.value
      [] c.op = ne -> v # c.value
      [] c.op = gt -> StrLess(c.value, v)
      [] c.op = ge -> ~StrLess(v, c.value)
      [] c.op = lt -> StrLess(v, c.value)
      [] c.op = le -> ~StrLess(c.value, v)
      [] c.op = in_ -> v \in Range(c.values)
      [] c.op = not_in -> v \notin Range(c.values)
      [] OTHER -> FALSE

RECURSIVE Eval(_, _)
Eval(p, row) ==
    CASE p.kind = "true" -> TRUE
      [] p.kind = "cmp" -> EvalComparison(p, row)
      [] p.kind = "and" -> \A i \in DOMAIN p.args : Eval(p.args[i], row)
      [] p.kind = "or" -> \E i \in DOMAIN p.args : Eval(p.args[i], row)
      [] OTHER -> FALSE

----------------------------------------------------------------------------
(* filter_data_permission *)

Return(value) == [kind |-> "return", value |-> value]

Raise(error, msg) == [kind |-> "raise", error |-> error, msg |-> msg]

NoResult == [kind |-> "none"]

\* the dependencies of the route are not followed
NoRoute == [dependencies |-> <<>>, value |-> [type |-> "NoneType"], ran |-> <<>>]

\* no administrative operation runs and nothing is cached
NoAdministration ==
    /\ store = [user_roles |-> <<>>, roles |-> <<>>, scopes |-> <<>>]
    /\ cache = <<>>
    /\ tx = [phase |-> "idle", error |-> "none"]

\* data_scope_dao.get_with_relation(db, pk) finds a row (it returns None otherwise)
scope_exists(pk) == pk \in DOMAIN scope_rules

\* the superuser test left out
SuperuserBypassOmitted(u) == FALSE

\* if request.user.is_superuser
SuperuserBypass(u) == u.is_superuser

\* only the first role is tested
UnfilteredFirstRole(u) == u.roles # <<>> /\ ~u.roles[1].is_filter_scopes

\* for role in request.user.roles: if not role.is_filter_scopes
UnfilteredRole(u) == \E i \in DOMAIN u.roles : ~u.roles[i].is_filter_scopes

\* the scope ids are collected whatever the status
DataScopeIdsAnyStatus(u) ==
    UNION {{u.roles[i].scopes[j].id : j \in DOMAIN u.roles[i].scopes} : i \in DOMAIN u.roles}

\* the ids of the scopes with a truthy status over all roles
DataScopeIds(u) ==
    UNION {{u.roles[i].scopes[j].id :
                j \in {k \in DOMAIN u.roles[i].scopes : u.roles[i].scopes[k].status # 0}}
           : i \in DOMAIN u.roles}

\* unique_data_rules: the rule ids in the order of their first insertion, scope after scope;
\* rule_lists[s] is the order in which the relationship DataScope.rules lists the rules of s
RECURSIVE UniqueDataRules(_, _, _)
UniqueDataRules(scope_list, rule_lists, acc) ==
    IF scope_list = <<>> THEN acc
    ELSE LET rs == rule_lists[Head(scope_list)]
             new == SelectSeq(rs, LAMBDA r : r \notin Range(acc))
         IN  UniqueDataRules(Tail(scope_list), rule_lists, acc \o new)

\* the exclusion list is not applied
ModelColumnsNoExclude(model) == TableColumns(model)

\* model_columns of an allow-listed entity
ModelColumns(model) == TableColumns(model) \ DATA_PERMISSION_COLUMN_EXCLUDE

\* the match on data_rule.expression: <<TRUE, condition>>, or <<FALSE, ...>> when condition stays None
RuleCondition(data_rule) ==
    LET e == data_rule.expression
        c == data_rule.column
        v == data_rule.value
        m == data_rule.model
    IN  IF e \in {eq, ne, gt, ge, lt, le} THEN <<TRUE, Comparison(m, c, e, v, <<>>)>>
        ELSE IF e \in {in_, not_in} THEN <<TRUE, Comparison(m, c, e, v, Split(v))>>
        ELSE <<FALSE, TruePredicate>>

\* the match on data_rule.operator: the two lists after the condition was appended
Append2(where_and_list, where_or_list, operator, condition) ==
    IF operator = AND THEN <<Append(where_and_list, condition), where_or_list>>
    ELSE IF operator = OR THEN <<where_and_list, Append(where_or_list, condition)>>
    ELSE <<where_and_list, where_or_list>>

\* the two buckets are joined by and_ instead of or_
CombineAllAnd(where_and_list, where_or_list) ==
    LET where_list == (IF where_and_list # <<>> THEN <<and_(where_and_list)>> ELSE <<>>)
                      \o (IF where_or_list # <<>> THEN <<or_(where_or_list)>> ELSE <<>>)
    IN  IF where_list # <<>> THEN and_(where_list) ELSE TruePredicate

\* or_(*where_list) is returned also when where_list is empty
CombineNoFallback(where_and_list, where_or_list) ==
    LET where_list == (IF where_and_list # <<>> THEN <<and_(where_and_list)>> ELSE <<>>)
                      \o (IF where_or_list # <<>> THEN <<or_(where_or_list)>> ELSE <<>>)
    IN  or_(where_list)

\* Combining all conditions
Combine(where_and_list, where_or_list) ==
    LET where_list == (IF where_and_list # <<>> THEN <<and_(where_and_list)>> ELSE <<>>)
                      \o (IF where_or_list # <<>> THEN <<or_(where_or_list)>> ELSE <<>>)
    IN  IF where_list # <<>> THEN or_(where_list) ELSE TruePredicate

\* every rule is compiled with the fields the rule was created with, not those of the store
RECURSIVE CompileRulesStale(_, _, _)
CompileRulesStale(data_rule_list, where_and_list, where_or_list) ==
    IF data_rule_list = <<>> THEN Return(Combine(where_and_list, where_or_list))
    ELSE LET data_rule == [model |-> "department", column |-> "status", operator |-> AND,
                           expression |-> eq, value |-> <<"1">>]
             rc == RuleCondition(data_rule)
             lists == Append2(where_and_list, where_or_list, data_rule.operator, rc[2])
         IN  CompileRulesStale(Tail(data_rule_list), lists[1], lists[2])

\* the loop over data_rule_list, then the combination
RECURSIVE CompileRules(_, _, _)
CompileRules(data_rule_list, where_and_list, where_or_list) ==
    IF data_rule_list = <<>> THEN Return(Combine(where_and_list, where_or_list))
    ELSE LET data_rule == rules[Head(data_rule_list)] IN
         IF data_rule.model \notin settings.DATA_PERMISSION_MODELS
         THEN Raise("NotFoundError", "Data rule model does not exist")
         ELSE IF data_rule.column \notin ModelColumns(data_rule.model)
         THEN Raise("NotFoundError", "Data rule model column does not exist")
         ELSE LET rc == RuleCondition(data_rule)
                  lists == IF rc[1]
                           THEN Append2(where_and_list, where_or_list, data_rule.operator, rc[2])
                           ELSE <<where_and_list, where_or_list>>
              IN  CompileRules(Tail(data_rule_list), lists[1], lists[2])

\* the scopes fetched before the call ends: all of scope_list, or up to the first missing one
Fetched(scope_list) ==
    IF \A i \in DOMAIN scope_list : scope_exists(scope_list[i]) THEN scope_list
    ELSE SubSeq(scope_list, 1,
                CHOOSE k \in DOMAIN scope_list :
                    /\ ~scope_exists(scope_list[k])
                    /\ \A j \in 1..(k - 1) : scope_exists(scope_list[j]))

\* filter_data_permission(db, request) for principal u; scope_list is the order in which
\* list(data_scope_ids) yields the ids, rule_lists the order of each scope's rules.
\* Returns <<outcome, scopes read from the store>>.
FilterDataPermission(u, scope_list, rule_lists) ==
    IF SuperuserBypass(u) THEN <<Return(TruePredicate), <<>>>>
    ELSE IF UnfilteredRole(u) THEN <<Return(TruePredicate), <<>>>>
    ELSE IF DataScopeIds(u) = {} THEN <<Return(TruePredicate), <<>>>>
    ELSE IF \E i \in DOMAIN scope_list : ~scope_exists(scope_list[i])
         THEN <<Raise("AttributeError", "'NoneType' object has no attribute 'rules'"),
                Fetched(scope_list)>>
    ELSE <<CompileRules(UniqueDataRules(scope_list, rule_lists, <<>>), <<>>, <<>>), scope_list>>

----------------------------------------------------------------------------
(* Inputs of the data-permission model *)

\* The rows of sys_data_rule the store starts with: four valid rules (two AND, two OR),
\* then a rule on an entity outside the allow-list, on an excluded column, on a column
\* the entity does not have, with an expression outside the enumeration, and with an
\* operator outside the enumeration.
SeedRules == <<
    [model |-> "department", column |-> "status", operator |-> AND, expression |-> eq,
     value |-> <<"1">>],
    [model |-> "department", column |-> "leader", operator |-> AND, expression |-> in_,
     value |-> <<"1", ",", "2">>],
    [model |-> "department", column |-> "status", operator |-> OR, expression |-> gt,
     value |-> <<"1">>],
    [model |-> "department", column |-> "leader", operator |-> OR, expression |-> ne,
     value |-> <<"2">>],
    [model |-> "user", column |-> "status", operator |-> AND, expression |-> eq,
     value |-> <<"1">>],
    [model |-> "department", column |-> "del_flag", operator |-> OR, expression |-> eq,
     value |-> <<"1">>],
    [model |-> "department", column |-> "owner", operator |-> AND, expression |-> eq,
     value |-> <<"1">>],
    [model |-> "department", column |-> "status", operator |-> AND, expression |-> 8,
     value |-> <<"1">>],
    [model |-> "department", column |-> "status", operator |-> 2, expression |-> ne,
     value |-> <<"3">>] >>

RuleIds == DOMAIN SeedRules

\* The rule sets a scope can have, at most n rules each
RuleSets(n) == {S \in SUBSET RuleIds : Cardinality(S) <= n}

\* role.scopes of the snapshot: scope snapshots with distinct ids
ScopeLists ==
    UNION {{[i \in 1..n |-> [id |-> f[i][1], status |-> f[i][2]]] :
                f \in {g \in [1..n -> ScopeIds \X {disable, enable}] :
                          \A i, j \in 1..n : g[i][1] = g[j][1] => i = j}}
           : n \in 0..MaxRoleScopes}

\* request.user.roles as filter_data_permission reads it, is_filter_scopes drawn from flags
FilterRoleLists(flags) ==
    UNION {{[i \in 1..n |-> [id |-> i, status |-> enable, is_filter_scopes |-> f[i][1],
                              menus |-> <<>>, scopes |-> f[i][2]]] :
                f \in [1..n -> flags \X ScopeLists]}
           : n \in 0..MaxRoles}

\* the scope ids the principal's roles list, whatever their status
ReferencedScopes(u) ==
    UNION {{u.roles[i].scopes[j].id : j \in DOMAIN u.roles[i].scopes} : i \in DOMAIN u.roles}

NoRequest == [path |-> "/api/v1/sys/depts", auth_scopes |-> TRUE, method |-> "GET",
              permission |-> None]

\* The store and the request of a principal drawn from superusers and role lists.
\* A scope that no role of the principal lists is never read: it starts without rules.
FilterInputs(superusers, role_lists, rule_sets) ==
    /\ rules = SeedRules
    /\ \E su \in superusers, rl \in role_lists :
          user = [id |-> 1, is_superuser |-> su, is_staff |-> TRUE, roles |-> rl]
    /\ \E f \in [ReferencedScopes(user) -> rule_sets] :
          scope_rules = [s \in ScopeIds |-> IF s \in ReferencedScopes(user) THEN f[s] ELSE {}]
    /\ request = NoRequest
    /\ settings = [RBAC_ROLE_MENU_MODE |-> TRUE,
                   DATA_PERMISSION_MODELS |-> DATA_PERMISSION_MODELS]
    /\ db_reads = <<>>
    /\ result = NoResult
    /\ NoAdministration
    /\ route = NoRoute

\* Principals that reach the compilation: no superuser, every role filters scopes
InitFilter == FilterInputs({FALSE}, FilterRoleLists({TRUE}), RuleSets(MaxScopeRules))

\* All principals, over scopes of at most one rule
InitBypass == FilterInputs(BOOLEAN, FilterRoleLists(BOOLEAN), RuleSets(1))

\* the rules of the scopes that exist among ids
RulesOf(ids) == UNION {scope_rules[s] : s \in ids \cap DOMAIN scope_rules}

\* crud_dept.get_all calls filter_data_permission(db, request).  The set data_scope_ids and
\* the relationship DataScope.rules are iterated in an order the code does not fix: the
\* scopes come in the order scope_list and the rules of each scope in the order of prio.
FilterCall ==
    /\ result = NoResult
    /\ \E scope_list \in Perms(DataScopeIds(user)) :
       \E prio \in Perms(RulesOf(DataScopeIds(user))) :
          LET rule_lists == [s \in DOMAIN scope_rules |->
                                SelectSeq(prio, LAMBDA r : r \in scope_rules[s])]
              r == FilterDataPermission(user, scope_list, rule_lists)
          IN  /\ result' = r[1]
              /\ db_reads' = r[2]
    /\ UNCHANGED <<rules, scope_rules, user, request, route, settings, admin_vars>>

NextFilter == FilterCall

Spec == InitFilter /\ [][NextFilter]_vars

SpecBypass == InitBypass /\ [][NextFilter]_vars

----------------------------------------------------------------------------
(* Properties of filter_data_permission *)

Called == result.kind # "none"

ReturnsTrue == result.kind = "return" /\ result.value.kind = "true"

RaisesNotFound == result.kind = "raise" /\ result.error = "NotFoundError"

\* the enabled scopes the principal's roles list
CollectedScopes ==
    {s \in ScopeIds : \E i \in DOMAIN user.roles : \E j \in DOMAIN user.roles[i].scopes :
        user.roles[i].scopes[j].id = s /\ user.roles[i].scopes[j].status = enable}

ReachableRules == UNION {scope_rules[s] : s \in CollectedScopes \cap DOMAIN scope_rules}

AllRolesFilter == \A i \in DOMAIN user.roles : user.roles[i].is_filter_scopes

NonBypassed == ~user.is_superuser /\ AllRolesFilter /\ CollectedScopes # {}

FilterableColumns == {"name", "leader", "phone", "email", "status", "parent_id"}

BadReference(rule) == rule.model # "department" \/ rule.column \notin FilterableColumns

RuleValid(rule) ==
    /\ ~BadReference(rule)
    /\ rule.operator \in {AND, OR}
    /\ rule.expression \in 0..7

Rows == [{"status", "leader"} -> {<<"1">>, <<"2">>, <<"3">>}]

\* what the comparison of a valid rule selects
RuleHolds(rule, row) ==
    LET v == row[rule.column]
        w == rule.value
    IN  CASE rule.expression = 0 -> v = w
          [] rule.expression = 1 -> v # w
          [] rule.expression = 2 -> StrLess(w, v)
          [] rule.expression = 3 -> v = w \/ StrLess(w, v)
          [] rule.expression = 4 -> StrLess(v, w)
          [] rule.expression = 5 -> v = w \/ StrLess(v, w)
          [] rule.expression = 6 -> \E i \in DOMAIN Split(w) : Split(w)[i] = v
          [] rule.expression = 7 -> \A i \in DOMAIN Split(w) : Split(w)[i] # v

AndBucket == {r \in ReachableRules : rules[r].operator = AND}

OrBucket == {r \in ReachableRules : rules[r].operator = OR}

\* (conjunction of the AND-rules) OR (disjunction of the OR-rules), an empty bucket left out
ExpectedRow(row) ==
    IF AndBucket = {} /\ OrBucket = {} THEN TRUE
    ELSE \/ AndBucket # {} /\ \A r \in AndBucket : RuleHolds(rules[r], row)
         \/ \E r \in OrBucket : RuleHolds(rules[r], row)

\* C1: for a non-bypassed principal whose reachable rules are all valid, the call returns a
\* predicate that selects exactly the rows satisfying (all AND-rules) OR (some OR-rule),
\* an empty bucket being left out.
C1_BucketCombination ==
    (Called /\ NonBypassed /\ \A r \in ReachableRules : RuleValid(rules[r]))
        => /\ result.kind = "return"
           /\ \A row \in Rows : Eval(result.value, row) <=> ExpectedRow(row)

\* an AND-rule and an OR-rule reached through two different roles were compiled
C1_Witness ==
    /\ Called /\ NonBypassed
    /\ Len(user.roles) = 2
    /\ user.roles[1].scopes = <<[id |-> 1, status |-> enable]>>
    /\ user.roles[2].scopes = <<[id |-> 2, status |-> enable]>>
    /\ scope_rules[1] = {1} /\ scope_rules[2] = {3}
    /\ result.kind = "return" /\ result.value.kind = "or" /\ Len(result.value.args) = 2

\* C2: for a non-bypassed principal, a reachable rule naming an entity outside
\* DATA_PERMISSION_MODELS, or a column that the entity lacks or that is excluded, makes the
\* call raise NotFoundError, whatever the other rules and the order of the rules.
C2_InvalidReferenceRaises ==
    (Called /\ NonBypassed /\ \E r \in ReachableRules : BadReference(rules[r]))
        => RaisesNotFound

\* a rule on the excluded column del_flag, reached next to a valid rule, made the call raise
C2_Witness ==
    /\ Called /\ NonBypassed
    /\ ReachableRules = {1, 6}
    /\ RaisesNotFound

\* C3: for a non-bypassed principal, a reachable rule whose expression is none of the eight
\* comparison operators makes the call raise a NotFound error.
C3_UnknownExpressionRaises ==
    (Called /\ NonBypassed /\ \E r \in ReachableRules : rules[r].expression \notin 0..7)
        => RaisesNotFound

\* C4: for a superuser the call returns the trivially-true predicate and fetches no scope
\* from the store, whatever the roles, scopes and rules.
C4_SuperuserUnrestricted ==
    (Called /\ user.is_superuser) => (ReturnsTrue /\ db_reads = <<>>)

\* a superuser whose filtering role has an enabled scope with an invalid rule was served
C4_Witness ==
    /\ Called /\ user.is_superuser
    /\ AllRolesFilter /\ CollectedScopes # {}
    /\ \E r \in ReachableRules : BadReference(rules[r])
    /\ ReturnsTrue

\* C5: for a non-superuser holding a role with is_filter_scopes = false, at any position of
\* the role list, the call returns the trivially-true predicate.
C5_UnfilteredRoleUnrestricted ==
    (Called /\ ~user.is_superuser
        /\ \E i \in DOMAIN user.roles : user.roles[i].is_filter_scopes = FALSE)
        => ReturnsTrue

\* the unfiltered role came second, after a filtering role with an enabled scope and a rule
C5_Witness ==
    /\ Called /\ ~user.is_superuser
    /\ Len(user.roles) = 2
    /\ user.roles[1].is_filter_scopes /\ ~user.roles[2].is_filter_scopes
    /\ \E j \in DOMAIN user.roles[1].scopes :
          /\ user.roles[1].scopes[j].status = enable
          /\ scope_rules[user.roles[1].scopes[j].id] # {}
    /\ ReturnsTrue

\* the principal without the snapshots of the scopes that have no rule
WithoutEmptyScopes(u) ==
    [u EXCEPT !.roles = [i \in DOMAIN u.roles |->
        [u.roles[i] EXCEPT !.scopes =
            SelectSeq(u.roles[i].scopes, LAMBDA sc : scope_rules[sc.id] # {})]]]

\* the outcomes of the call for principal u over the iteration orders
Outcomes(u) ==
    {FilterDataPermission(u, scope_list,
        [s \in DOMAIN scope_rules |-> SelectSeq(prio, LAMBDA r : r \in scope_rules[s])])[1] :
        <<scope_list, prio>> \in Perms(DataScopeIds(u)) \X Perms(RulesOf(DataScopeIds(u)))}

SameOutcome(a, b) ==
    /\ a.kind = b.kind
    /\ a.kind = "raise" => a.error = b.error
    /\ a.kind = "return" => \A row \in Rows : Eval(a.value, row) <=> Eval(b.value, row)

\* C6: for a non-superuser whose roles all filter scopes, the call returns the
\* trivially-true predicate when the roles carry no scope or every collected scope has no
\* rule; and the outcome is the one of the same principal without its zero-rule scopes.
C6_EmptyScopesUnrestricted ==
    (Called /\ ~user.is_superuser /\ AllRolesFilter)
        => /\ ((\A i \in DOMAIN user.roles : user.roles[i].scopes = <<>>)
                  \/ (\A s \in CollectedScopes : scope_rules[s] = {}))
                => ReturnsTrue
           /\ \A o \in Outcomes(WithoutEmptyScopes(user)) : SameOutcome(result, o)

\* a zero-rule scope was collected next to a scope with two rules
C6_Witness ==
    /\ Called /\ NonBypassed
    /\ CollectedScopes = {1, 2}
    /\ scope_rules[1] = {} /\ scope_rules[2] = {1, 3}
    /\ result.kind = "return" /\ result.value.kind = "or"

----------------------------------------------------------------------------
(* rbac_verify *)

TOKEN_REQUEST_PATH_EXCLUDE == {"/api/v1/auth/login"}

\* some pattern of TOKEN_REQUEST_PATH_EXCLUDE_PATTERN matches the path:
\* ^/api/v1/monitors/(redis|server)$
PatternMatch(path) == path \in {"/api/v1/monitors/redis", "/api/v1/monitors/server"}

RBAC_ROLE_MENU_EXCLUDE == {
    <<"s", "y", "s", ":", "m", "o", "n", "i", "t", "o", "r", ":", "r", "e", "d", "i", "s">>,
    <<"s", "y", "s", ":", "m", "o", "n", "i", "t", "o", "r", ":", "s", "e", "r", "v", "e", "r">>}

NoRoleMsg == "User has not assigned a role, please contact the system administrator"

NoMenuMsg == "User has not assigned a menu, please contact the system administrator"

NoStaffMsg == "The user has been banned from background management operations, please contact the system administrator"

DeniedMsg == "Permission Denied"

\* the outcome of rbac_verify, with the check that decided it
Allow(step) == [kind |-> "return", step |-> step]

Deny(step, error, msg) == [kind |-> "raise", step |-> step, error |-> error, msg |-> msg]

\* status == 0 for status in user_roles: the loop variable is a role object of the
\* snapshot, which never equals the integer 0
RoleEqualsZero(role) == FALSE

\* not user_roles or all(status == 0 for status in user_roles)
NoRoleAssigned(user_roles) ==
    user_roles = <<>> \/ \A i \in DOMAIN user_roles : RoleEqualsZero(user_roles[i])

\* the menu test left out
NoMenuAssignedOmitted(user_roles) == FALSE

\* not any(len(role.menus) > 0 for role in user_roles)
NoMenuAssigned(user_roles) == ~\E i \in DOMAIN user_roles : Len(user_roles[i].menus) > 0

\* DELETE is not counted among the management methods
ManagementMethodNoDelete(method) == method \in {"POST", "PUT", "PATCH"}

\* method != MethodType.GET or method != MethodType.OPTIONS
ManagementMethod(method) == method # "GET" \/ method # "OPTIONS"

\* unique_menus.values(): the menus by id, in the order of the first insertion of the id,
\* each id holding the menu inserted last
RECURSIVE UniqueMenus(_, _)
UniqueMenus(menu_list, acc) ==
    IF menu_list = <<>> THEN acc
    ELSE LET menu == Head(menu_list) IN
         IF \E k \in DOMAIN acc : acc[k].id = menu.id
         THEN UniqueMenus(Tail(menu_list),
                          [k \in DOMAIN acc |-> IF acc[k].id = menu.id THEN menu ELSE acc[k]])
         ELSE UniqueMenus(Tail(menu_list), Append(acc, menu))

\* the menus of all roles, role after role
RECURSIVE RoleMenus(_)
RoleMenus(user_roles) ==
    IF user_roles = <<>> THEN <<>> ELSE Head(user_roles).menus \o RoleMenus(Tail(user_roles))

\* the codes of the menus with truthy perms, whatever the status
RECURSIVE AllowPermsAnyStatus(_)
AllowPermsAnyStatus(menu_list) ==
    IF menu_list = <<>> THEN <<>>
    ELSE LET menu == Head(menu_list) IN
         (IF Truthy(menu.perms) THEN Split(menu.perms.value) ELSE <<>>)
             \o AllowPermsAnyStatus(Tail(menu_list))

\* allow_perms: the codes of the menus with truthy perms and status enable
RECURSIVE AllowPerms(_)
AllowPerms(menu_list) ==
    IF menu_list = <<>> THEN <<>>
    ELSE LET menu == Head(menu_list) IN
         (IF Truthy(menu.perms) /\ menu.status = enable THEN Split(menu.perms.value) ELSE <<>>)
             \o AllowPerms(Tail(menu_list))

\* the outcomes of the branch taken when RBAC_ROLE_MENU_MODE is off: the casbin plugin is
\* not importable (ServerError), or casbin_verify of the plugin decides
CasbinOutcomes ==
    {Deny("casbin", "ServerError", "Permission verification failed, please contact the system administrator"),
     Deny("casbin", "AuthorizationError", DeniedMsg),
     Allow("casbin")}

\* the superuser test comes after the role and menu tests
RbacVerifySuperuserLate(req, u, conf) ==
    IF req.path \in TOKEN_REQUEST_PATH_EXCLUDE THEN {Allow("path")}
    ELSE IF PatternMatch(req.path) THEN {Allow("path")}
    ELSE IF ~req.auth_scopes THEN {Deny("auth", "TokenError", "Not Authenticated")}
    ELSE IF NoRoleAssigned(u.roles) THEN {Deny("roles", "AuthorizationError", NoRoleMsg)}
    ELSE IF NoMenuAssigned(u.roles) THEN {Deny("menus", "AuthorizationError", NoMenuMsg)}
    ELSE {Allow("superuser")}

\* the staff test comes before the role test
RbacVerifyStaffFirst(req, u, conf) ==
    IF req.path \in TOKEN_REQUEST_PATH_EXCLUDE THEN {Allow("path")}
    ELSE IF PatternMatch(req.path) THEN {Allow("path")}
    ELSE IF ~req.auth_scopes THEN {Deny("auth", "TokenError", "Not Authenticated")}
    ELSE IF u.is_superuser THEN {Allow("superuser")}
    ELSE IF ManagementMethod(req.method) /\ ~u.is_staff
         THEN {Deny("staff", "AuthorizationError", NoStaffMsg)}
    ELSE IF NoRoleAssigned(u.roles) THEN {Deny("roles", "AuthorizationError", NoRoleMsg)}
    ELSE IF NoMenuAssigned(u.roles) THEN {Deny("menus", "AuthorizationError", NoMenuMsg)}
    ELSE {Allow("no_code")}

\* the codes of RBAC_ROLE_MENU_EXCLUDE are checked against the menus like any other code
RbacVerifyNoExclude(req, u, conf) ==
    IF req.path \in TOKEN_REQUEST_PATH_EXCLUDE THEN {Allow("path")}
    ELSE IF PatternMatch(req.path) THEN {Allow("path")}
    ELSE IF ~req.auth_scopes THEN {Deny("auth", "TokenError", "Not Authenticated")}
    ELSE IF u.is_superuser THEN {Allow("superuser")}
    ELSE IF NoRoleAssigned(u.roles) THEN {Deny("roles", "AuthorizationError", NoRoleMsg)}
    ELSE IF NoMenuAssigned(u.roles) THEN {Deny("menus", "AuthorizationError", NoMenuMsg)}
    ELSE IF ManagementMethod(req.method) /\ ~u.is_staff
         THEN {Deny("staff", "AuthorizationError", NoStaffMsg)}
    ELSE IF ~conf.RBAC_ROLE_MENU_MODE THEN CasbinOutcomes
    ELSE IF ~Truthy(req.permission) THEN {Allow("no_code")}
    ELSE IF req.permission.value \in Range(AllowPerms(UniqueMenus(RoleMenus(u.roles), <<>>)))
         THEN {Allow("code")}
    ELSE {Deny("code", "AuthorizationError", DeniedMsg)}

\* rbac_verify(request): the set of its possible outcomes (one, unless casbin decides)
RbacVerify(req, u, conf) ==
    IF req.path \in TOKEN_REQUEST_PATH_EXCLUDE THEN {Allow("path")}
    ELSE IF PatternMatch(req.path) THEN {Allow("path")}
    ELSE IF ~req.auth_scopes THEN {Deny("auth", "TokenError", "Not Authenticated")}
    ELSE IF u.is_superuser THEN {Allow("superuser")}
    ELSE IF NoRoleAssigned(u.roles) THEN {Deny("roles", "AuthorizationError", NoRoleMsg)}
    ELSE IF NoMenuAssigned(u.roles) THEN {Deny("menus", "AuthorizationError", NoMenuMsg)}
    ELSE IF ManagementMethod(req.method) /\ ~u.is_staff
         THEN {Deny("staff", "AuthorizationError", NoStaffMsg)}
    ELSE IF ~conf.RBAC_ROLE_MENU_MODE THEN CasbinOutcomes
    ELSE IF ~Truthy(req.permission) THEN {Allow("no_code")}
    ELSE IF req.permission.value \in RBAC_ROLE_MENU_EXCLUDE THEN {Allow("code_exclude")}
    ELSE IF req.permission.value \in Range(AllowPerms(UniqueMenus(RoleMenus(u.roles), <<>>)))
         THEN {Allow("code")}
    ELSE {Deny("code", "AuthorizationError", DeniedMsg)}

----------------------------------------------------------------------------
(* Inputs of the menu-authorization model *)

Methods == {"GET", "POST", "PUT", "DELETE", "PATCH", "OPTIONS"}

\* request.state.permission: not set, or the code stored by RequestPermission
RequestPermissions ==
    {None, Str(<<>>), Str(<<"a">>), Str(<<"b">>),
     Str(<<"s", "y", "s", ":", "m", "o", "n", "i", "t", "o", "r", ":", "r", "e", "d", "i", "s">>)}

\* the rows of sys_menu as far as rbac_verify reads them: perms and status
MenuRows == [perms : {None, Str(<<>>), Str(<<"a">>), Str(<<"a", ",", "b">>)},
             status : {disable, enable}]

\* the menu ids of one role: distinct ids
MenuIdLists ==
    UNION {{f \in [1..n -> MenuIds] : \A i, j \in 1..n : f[i] = f[j] => i = j}
           : n \in 0..MaxRoleMenus}

\* the roles of a principal: status and menu ids of each role
RoleShapes == UNION {[1..n -> {disable, enable} \X MenuIdLists] : n \in 0..MaxRoles}

ReferencedMenus(shape) == UNION {Range(shape[i][2]) : i \in DOMAIN shape}

\* request.user.roles as rbac_verify reads it: every snapshot of a menu is the menu's row
RbacRoles(shape, table) ==
    [i \in DOMAIN shape |->
        [id |-> i, status |-> shape[i][1], is_filter_scopes |-> TRUE,
         menus |-> [k \in DOMAIN shape[i][2] |->
                       [id |-> shape[i][2][k],
                        perms |-> table[shape[i][2][k]].perms,
                        status |-> table[shape[i][2][k]].status]],
         scopes |-> <<>>]]

\* A request with path, authentication marker, method and permission drawn from the given
\* sets, for a principal whose flags are drawn from superusers and BOOLEAN (is_staff)
RbacInputs(paths, auths, superusers, modes) ==
    /\ rules = SeedRules
    /\ scope_rules = [s \in ScopeIds |-> {}]
    /\ \E su \in superusers, st \in BOOLEAN, shape \in RoleShapes :
       \E table \in [ReferencedMenus(shape) -> MenuRows] :
          user = [id |-> 1, is_superuser |-> su, is_staff |-> st,
                  roles |-> RbacRoles(shape, table)]
    /\ request \in [path : paths, auth_scopes : auths, method : Methods,
                    permission : RequestPermissions]
    /\ settings \in [RBAC_ROLE_MENU_MODE : modes,
                     DATA_PERMISSION_MODELS : {DATA_PERMISSION_MODELS}]
    /\ db_reads = <<>>
    /\ result = NoResult
    /\ NoAdministration
    /\ route = NoRoute

\* Authenticated requests of non-superusers on a path outside the allow-list, menu mode on
InitRbac == RbacInputs({"/api/v1/sys/depts"}, {TRUE}, {FALSE}, {TRUE})

\* DependsRBAC runs rbac_verify on the request
RbacCall ==
    /\ result = NoResult
    /\ \E o \in RbacVerify(request, user, settings) : result' = o
    /\ UNCHANGED <<rules, scope_rules, user, request, route, settings, db_reads, admin_vars>>

NextRbac == RbacCall

SpecRbac == InitRbac /\ [][NextRbac]_vars

----------------------------------------------------------------------------
(* Properties of rbac_verify *)

Allowed == result.kind = "return"

DeniedWith(msg) ==
    result.kind = "raise" /\ result.error = "AuthorizationError" /\ result.msg = msg

\* an authenticated non-superuser on a path outside the allow-list
PastGate ==
    /\ request.path \notin
          {"/api/v1/auth/login", "/api/v1/monitors/redis", "/api/v1/monitors/server"}
    /\ request.auth_scopes
    /\ ~user.is_superuser

\* the codes of a menu's code string: none for a null or empty string
CodesOf(perms) ==
    IF perms.set /\ perms.value # <<>> THEN {Split(perms.value)[k] : k \in DOMAIN Split(perms.value)}
    ELSE {}

\* the codes of the enabled menus attached to the enabled roles of the principal
GrantedCodes ==
    UNION {CodesOf(user.roles[i].menus[k].perms) :
        <<i, k>> \in {p \in (DOMAIN user.roles) \X (1..MaxRoleMenus) :
            /\ user.roles[p[1]].status = enable
            /\ p[2] \in DOMAIN user.roles[p[1]].menus
            /\ user.roles[p[1]].menus[p[2]].status = enable}}

\* the principal has a role and not all of its roles are disabled
RoleCheckSatisfied == \E i \in DOMAIN user.roles : user.roles[i].status = enable

\* some role of the principal has a menu
MenuCheckSatisfied == \E i \in DOMAIN user.roles : user.roles[i].menus # <<>>

\* the operation requires no code, or a code of the bypass list, or a granted code
CodeCheckSatisfied ==
    \/ ~request.permission.set
    \/ request.permission.value = <<>>
    \/ request.permission.value \in RBAC_ROLE_MENU_EXCLUDE
    \/ request.permission.value \in GrantedCodes

\* C7: with menu-code mode on, a request that reaches the permission-code check is allowed
\* if and only if the required code is a code of an enabled menu of an enabled role of the
\* principal, and is denied with the reason 'Permission Denied' otherwise.
C7_CodeOfEnabledRoleMenu ==
    (Called /\ settings.RBAC_ROLE_MENU_MODE /\ result.step = "code")
        => /\ Allowed <=> request.permission.value \in GrantedCodes
           /\ ~Allowed => DeniedWith(DeniedMsg)

\* C8: a non-staff principal satisfying the role, menu and permission-code checks is
\* allowed when the method is GET or OPTIONS.
C8_NonStaffReadAllowed ==
    (Called /\ PastGate /\ settings.RBAC_ROLE_MENU_MODE
        /\ ~user.is_staff /\ request.method \in {"GET", "OPTIONS"}
        /\ RoleCheckSatisfied /\ MenuCheckSatisfied /\ CodeCheckSatisfied)
        => Allowed

\* C9: a non-staff principal satisfying the role and menu checks is denied with the
\* management-operations reason for POST, PUT, PATCH and DELETE, whatever its codes.
C9_NonStaffMutationDenied ==
    (Called /\ PastGate
        /\ ~user.is_staff /\ request.method \in {"POST", "PUT", "PATCH", "DELETE"}
        /\ RoleCheckSatisfied /\ MenuCheckSatisfied)
        => DeniedWith(NoStaffMsg)

\* a non-staff principal holding the required code was denied a DELETE
C9_Witness ==
    /\ Called /\ PastGate
    /\ ~user.is_staff /\ request.method = "DELETE"
    /\ RoleCheckSatisfied /\ MenuCheckSatisfied
    /\ request.permission.set /\ request.permission.value \in GrantedCodes
    /\ DeniedWith(NoStaffMsg)

\* C10: a principal with no role, or with roles that are all disabled, is denied with the
\* no-role reason, also when the disabled roles carry menus with the required code.
C10_NoEnabledRoleDenied ==
    (Called /\ PastGate
        /\ (user.roles = <<>> \/ \A i \in DOMAIN user.roles : user.roles[i].status = disable))
        => DeniedWith(NoRoleMsg)

\* C11: an authenticated non-superuser with at least one role, none of which has a menu, is
\* denied with the no-menu reason on a path outside the allow-list, also when the operation
\* declares no permission code and also for a staff principal issuing GET.
C11_NoMenuDenied ==
    (Called /\ PastGate /\ user.roles # <<>> /\ ~MenuCheckSatisfied)
        => DeniedWith(NoMenuMsg)

\* a staff principal whose only role has no menu was denied a GET that requires no code
C11_Witness ==
    /\ Called /\ PastGate
    /\ Len(user.roles) = 1 /\ user.roles[1].menus = <<>>
    /\ user.is_staff /\ request.method = "GET" /\ ~request.permission.set
    /\ DeniedWith(NoMenuMsg)

----------------------------------------------------------------------------
(* The order of the checks of rbac_verify *)

GatePaths == {"/api/v1/sys/depts", "/api/v1/auth/login", "/api/v1/monitors/redis"}

\* the row of every menu of the gate model: one code, enabled
GateMenuRow == [perms |-> Str(<<"a">>), status |-> enable]

\* Requests on allow-listed and other paths, with and without the authentication marker, of
\* superusers and other principals, in both modes
InitGate ==
    /\ rules = SeedRules
    /\ scope_rules = [s \in ScopeIds |-> {}]
    /\ \E su \in BOOLEAN, st \in BOOLEAN, shape \in RoleShapes :
          user = [id |-> 1, is_superuser |-> su, is_staff |-> st,
                  roles |-> RbacRoles(shape, [m \in ReferencedMenus(shape) |-> GateMenuRow])]
    /\ request \in [path : GatePaths, auth_scopes : BOOLEAN, method : Methods,
                    permission : {None, Str(<<"a">>), Str(<<"b">>)}]
    /\ settings \in [RBAC_ROLE_MENU_MODE : BOOLEAN,
                     DATA_PERMISSION_MODELS : {DATA_PERMISSION_MODELS}]
    /\ db_reads = <<>>
    /\ result = NoResult
    /\ NoAdministration
    /\ route = NoRoute

SpecGate == InitGate /\ [][NextRbac]_vars

AllowListed ==
    request.path \in {"/api/v1/auth/login", "/api/v1/monitors/redis", "/api/v1/monitors/server"}

DeniedUnauthenticated ==
    result.kind = "raise" /\ result.error = "TokenError" /\ result.msg = "Not Authenticated"

\* C12: an authenticated superuser is allowed, whatever its roles, its is_staff flag, the
\* method, the required permission code and the menu-code mode.
C12_SuperuserAllowed ==
    (Called /\ request.auth_scopes /\ user.is_superuser) => Allowed

\* a non-staff superuser without roles was allowed a DELETE that requires a code, on a path
\* outside the allow-list, with menu-code mode off
C12_Witness ==
    /\ Called /\ ~AllowListed /\ request.auth_scopes /\ user.is_superuser
    /\ user.roles = <<>> /\ ~user.is_staff /\ request.method = "DELETE"
    /\ request.permission = Str(<<"b">>) /\ ~settings.RBAC_ROLE_MENU_MODE
    /\ Allowed

\* the reasons of the five deny outcomes: error class and message
DenyReasons ==
    {<<"TokenError", "Not Authenticated">>,
     <<"AuthorizationError", NoRoleMsg>>,
     <<"AuthorizationError", NoMenuMsg>>,
     <<"AuthorizationError", NoStaffMsg>>,
     <<"AuthorizationError", DeniedMsg>>}

\* C19: the checks run in the order path allow-list, authentication marker, superuser,
\* roles, menus, staff/method, permission code, and the first check that decides gives the
\* outcome: an allow-listed path is allowed without authentication marker, a superuser
\* without marker gets the authentication-required error, a principal without roles is
\* denied 'no role' whatever its staff flag and method, a later check decides only when
\* the earlier ones passed, and the five deny reasons are pairwise different.
C19_FixedOrder ==
    Called =>
        /\ AllowListed => Allowed
        /\ (~AllowListed /\ ~request.auth_scopes) => DeniedUnauthenticated
        /\ (~AllowListed /\ request.auth_scopes /\ user.is_superuser) => Allowed
        /\ (PastGate /\ user.roles = <<>>) => DeniedWith(NoRoleMsg)
        /\ (PastGate /\ user.roles # <<>> /\ ~MenuCheckSatisfied) => DeniedWith(NoMenuMsg)
        /\ DeniedWith(NoStaffMsg)
              => (PastGate /\ user.roles # <<>> /\ MenuCheckSatisfied /\ ~user.is_staff)
        /\ (DeniedWith(DeniedMsg) /\ settings.RBAC_ROLE_MENU_MODE)
              => /\ PastGate /\ user.roles # <<>> /\ MenuCheckSatisfied
                 /\ user.is_staff \/ request.method \in {"GET", "OPTIONS"}
                 /\ Truthy(request.permission)
        /\ Cardinality(DenyReasons) = 5

\* a non-staff principal without roles was denied a POST with the no-role reason
C19_Witness ==
    /\ Called /\ PastGate
    /\ user.roles = <<>> /\ ~user.is_staff /\ request.method = "POST"
    /\ DeniedWith(NoRoleMsg)

----------------------------------------------------------------------------
(* The entity of the compiled comparisons *)

\* the values of settings.DATA_PERMISSION_MODELS: that of conf.py, and one that also lists
\* the entity backend.app.admin.model.User under the name 'user'
ModelSettings == {DATA_PERMISSION_MODELS, DATA_PERMISSION_MODELS \cup {"user"}}

\* Principals that reach the compilation, under each value of the allow-list
InitModels ==
    /\ rules = SeedRules
    /\ \E rl \in FilterRoleLists({TRUE}) :
          user = [id |-> 1, is_superuser |-> FALSE, is_staff |-> TRUE, roles |-> rl]
    /\ \E f \in [ReferencedScopes(user) -> RuleSets(MaxScopeRules)] :
          scope_rules = [s \in ScopeIds |-> IF s \in ReferencedScopes(user) THEN f[s] ELSE {}]
    /\ request = NoRequest
    /\ settings \in [RBAC_ROLE_MENU_MODE : {TRUE}, DATA_PERMISSION_MODELS : ModelSettings]
    /\ db_reads = <<>>
    /\ result = NoResult
    /\ NoAdministration
    /\ route = NoRoute

SpecModels == InitModels /\ [][NextFilter]_vars

\* the comparisons of a predicate
RECURSIVE Comparisons(_)
Comparisons(p) ==
    CASE p.kind = "cmp" -> {p}
      [] p.kind \in {"and", "or"} -> UNION {Comparisons(p.args[i]) : i \in DOMAIN p.args}
      [] OTHER -> {}

\* C20: the predicate that filter_data_permission returns to the department query holds
\* comparisons over department columns only; a reachable rule of another allow-listed
\* entity contributes no comparison.
C20_TargetEntityOnly ==
    (Called /\ result.kind = "return")
        => \A c \in Comparisons(result.value) : c.model = "department"

----------------------------------------------------------------------------
(* The administration services and the per-user cache *)

MaxUsers == 2        \* users in the store

\* the ids of the users: 1, 12, 13, ...; the decimal writing of id 1 starts that of the others
UserIds == {1} \cup {10 + u : u \in 2..MaxUsers}

\* the ids of the rows the store of the administration model starts with
AdminRoleIds == {1}

AdminMenuIds == {1}

AdminScopeIds == {1}

AdminRuleIds == {1}

\* the decimal digits of an id (below 100), as they stand in the cache key
Digits(n) == IF n < 10 THEN <<n>> ELSE <<n \div 10, n % 10>>

IsPrefix(s, t) == Len(s) <= Len(t) /\ SubSeq(t, 1, Len(s)) = s

\* f without the keys of S
Drop(f, S) == [x \in (DOMAIN f) \ S |-> f[x]]

\* redis_client.delete(f'{settings.JWT_USER_REDIS_PREFIX}:{user.id}') for each user of users
delete(c, users) == Drop(c, users)

\* redis_client.delete_prefix(f'{settings.JWT_USER_REDIS_PREFIX}:{user.id}') for each user
\* of users: every key that starts with the prefix is deleted
delete_prefix(c, users) ==
    Drop(c, {k \in DOMAIN c : \E u \in users : IsPrefix(Digits(u), Digits(k))})

\* the rows a session sees: those committed, or those of its own transaction
Committed ==
    [user_roles |-> store.user_roles, roles |-> store.roles, scopes |-> store.scopes,
     rules |-> rules, scope_rules |-> scope_rules]

\* only one of the users of the role is found
RoleUsersOne(db, pk) ==
    {u \in UserIds : pk \in db.user_roles[u] /\ \A v \in UserIds : pk \in db.user_roles[v] => u <= v}

\* role.awaitable_attrs.users
RoleUsers(db, pk) == {u \in UserIds : pk \in db.user_roles[u]}

\* data_scope.awaitable_attrs.roles
ScopeRoles(db, pk) == {r \in DOMAIN db.roles : pk \in db.roles[r].scopes}

\* the outcome of the body of a transaction block: the rows and the cache it leaves
Ok(db, c) == [kind |-> "ok", db |-> db, cache |-> c]

Fail(error) == [kind |-> "raise", error |-> error]

role_dao_update(db, pk, status) == [db EXCEPT !.roles[pk].status = status]

role_dao_update_menus(db, pk, menus) == [db EXCEPT !.roles[pk].menus = menus \cap AdminMenuIds]

role_dao_update_scopes(db, pk, scopes) ==
    [db EXCEPT !.roles[pk].scopes = scopes \cap DOMAIN db.scopes]

\* DELETE FROM sys_role WHERE id IN role_ids, with the cascade on sys_user_role
role_dao_delete(db, role_ids) ==
    [db EXCEPT !.roles = Drop(db.roles, role_ids),
               !.user_roles = [u \in DOMAIN db.user_roles |-> db.user_roles[u] \ role_ids]]

data_scope_dao_update(db, pk, status) == [db EXCEPT !.scopes[pk].status = status]

data_scope_dao_update_rules(db, pk, rule_ids) ==
    [db EXCEPT !.scope_rules[pk] = rule_ids \cap DOMAIN db.rules]

\* DELETE FROM sys_data_scope WHERE id IN pks, with the cascades on sys_role_data_scope and
\* sys_data_scope_rule
data_scope_dao_delete(db, pks) ==
    [db EXCEPT !.scopes = Drop(db.scopes, pks),
               !.scope_rules = Drop(db.scope_rules, pks),
               !.roles = [r \in DOMAIN db.roles |->
                             [db.roles[r] EXCEPT !.scopes = db.roles[r].scopes \ pks]]]

\* DELETE FROM sys_data_rule WHERE id IN pks, with the cascade on sys_data_scope_rule
data_rule_dao_delete(db, pks) ==
    [db EXCEPT !.rules = Drop(db.rules, pks),
               !.scope_rules = [s \in DOMAIN db.scope_rules |-> db.scope_rules[s] \ pks]]

\* user_dao.update(db, user, obj): the roles of the user become those of obj.roles
user_dao_update(db, pk, roles) == [db EXCEPT !.user_roles[pk] = roles]

role_service_update(db, c, pk, status) ==
    IF pk \notin DOMAIN db.roles THEN Fail("NotFoundError")
    ELSE LET db1 == role_dao_update(db, pk, status)
         IN  Ok(db1, delete_prefix(c, RoleUsers(db1, pk)))

role_service_update_role_menu(db, c, pk, menus) ==
    IF pk \notin DOMAIN db.roles THEN Fail("NotFoundError")
    ELSE IF \E m \in menus : m \notin AdminMenuIds THEN Fail("NotFoundError")
    ELSE LET db1 == role_dao_update_menus(db, pk, menus)
         IN  Ok(db1, delete_prefix(c, RoleUsers(db1, pk)))

role_service_update_role_scope(db, c, pk, scopes) ==
    IF pk \notin DOMAIN db.roles THEN Fail("NotFoundError")
    ELSE IF \E sc \in scopes : sc \notin DOMAIN db.scopes THEN Fail("NotFoundError")
    ELSE LET db1 == role_dao_update_scopes(db, pk, scopes)
         IN  Ok(db1, delete(c, RoleUsers(db1, pk)))

\* the roles are deleted first; role_dao.get then looks each of them up again
role_service_delete(db, c, pks) ==
    LET db1 == role_dao_delete(db, pks)
    IN  Ok(db1, delete(c, UNION {RoleUsers(db1, pk) : pk \in pks \cap DOMAIN db1.roles}))

data_scope_service_update(db, c, pk, status) ==
    IF pk \notin DOMAIN db.scopes THEN Fail("NotFoundError")
    ELSE LET db1 == data_scope_dao_update(db, pk, status)
         IN  Ok(db1, delete(c, UNION {RoleUsers(db1, r) : r \in ScopeRoles(db1, pk)}))

\* get_with_relation gives None for a missing scope, and None has no attribute rules
data_scope_service_update_data_scope_rule(db, c, pk, rule_ids) ==
    IF pk \notin DOMAIN db.scopes THEN Fail("AttributeError")
    ELSE Ok(data_scope_dao_update_rules(db, pk, rule_ids), c)

\* the scopes are deleted first; data_scope_dao.get then looks each of them up again
data_scope_service_delete(db, c, pks) ==
    LET db1 == data_scope_dao_delete(db, pks)
    IN  Ok(db1, delete(c, UNION {UNION {RoleUsers(db1, r) : r \in ScopeRoles(db1, pk)}
                                 : pk \in pks \cap DOMAIN db1.scopes}))

data_rule_service_delete(db, c, pks) == Ok(data_rule_dao_delete(db, pks), c)

\* the request comes from a superuser (superuser_verify) and the user pk exists
user_service_update(db, c, pk, roles) ==
    IF \E r \in roles : r \notin DOMAIN db.roles THEN Fail("NotFoundError")
    ELSE Ok(user_dao_update(db, pk, roles), delete(c, {pk}))

----------------------------------------------------------------------------
(* The administrative operations as transactions *)

Idle(error) == [phase |-> "idle", error |-> error]

\* The store every user of which holds every role, every role of which has every menu and
\* every scope, every scope of which holds every rule; nothing is cached.  The requests
\* come from a superuser.
InitAdmin ==
    /\ rules = [r \in AdminRuleIds |-> SeedRules[r]]
    /\ scope_rules = [sc \in AdminScopeIds |-> AdminRuleIds]
    /\ store = [user_roles |-> [u \in UserIds |-> AdminRoleIds],
                roles |-> [r \in AdminRoleIds |->
                              [status |-> enable, menus |-> AdminMenuIds, scopes |-> AdminScopeIds]],
                scopes |-> [sc \in AdminScopeIds |-> [status |-> enable]]]
    /\ cache = [u \in {} |-> 0]
    /\ tx = Idle("none")
    /\ user = [id |-> 0, is_superuser |-> TRUE, is_staff |-> TRUE, roles |-> <<>>]
    /\ request = NoRequest
    /\ settings = [RBAC_ROLE_MENU_MODE |-> TRUE,
                   DATA_PERMISSION_MODELS |-> DATA_PERMISSION_MODELS]
    /\ db_reads = <<>>
    /\ result = NoResult
    /\ route = NoRoute

\* an exception of a cache deletion is swallowed: the block goes on to its exit
RunCommitOnError(op, pks, r) ==
    /\ tx.phase = "idle"
    /\ IF r.kind = "ok" \/ "db" \in DOMAIN r
       THEN /\ tx' = [phase |-> "open", error |-> "none", op |-> op, pks |-> pks,
                      db |-> r.db, evicted |-> (DOMAIN cache) \ (DOMAIN r.cache)]
            /\ cache' = r.cache
       ELSE /\ tx' = Idle(r.error)
            /\ cache' = cache
    /\ UNCHANGED <<rules, scope_rules, user, request, route, settings, db_reads, result, store>>

\* async with async_db_session.begin() as db: the body of the block has run with outcome r.
\* Its writes stay in the transaction, its cache deletions are done; an exception rolls back
\* the writes, and the keys deleted before the exception stay deleted.
Run(op, pks, r) ==
    /\ tx.phase = "idle"
    /\ IF r.kind = "ok"
       THEN /\ tx' = [phase |-> "open", error |-> "none", op |-> op, pks |-> pks,
                      db |-> r.db, evicted |-> (DOMAIN cache) \ (DOMAIN r.cache)]
            /\ cache' = r.cache
       ELSE /\ tx' = Idle(r.error)
            /\ cache' = IF "cache" \in DOMAIN r THEN r.cache ELSE cache
    /\ UNCHANGED <<rules, scope_rules, user, request, route, settings, db_reads, result, store>>

RoleUpdate ==
    \E pk \in AdminRoleIds, status \in {disable, enable} :
        Run("role_service.update", {pk}, role_service_update(Committed, cache, pk, status))

RoleUpdateMenu ==
    \E pk \in AdminRoleIds, menus \in SUBSET AdminMenuIds :
        Run("role_service.update_role_menu", {pk},
            role_service_update_role_menu(Committed, cache, pk, menus))

RoleUpdateScope ==
    \E pk \in AdminRoleIds, scopes \in SUBSET AdminScopeIds :
        Run("role_service.update_role_scope", {pk},
            role_service_update_role_scope(Committed, cache, pk, scopes))

RoleDelete ==
    \E pks \in (SUBSET AdminRoleIds) \ {{}} :
        Run("role_service.delete", pks, role_service_delete(Committed, cache, pks))

DataScopeUpdate ==
    \E pk \in AdminScopeIds, status \in {disable, enable} :
        Run("data_scope_service.update", {pk},
            data_scope_service_update(Committed, cache, pk, status))

DataScopeUpdateRule ==
    \E pk \in AdminScopeIds, rule_ids \in SUBSET AdminRuleIds :
        Run("data_scope_service.update_data_scope_rule", {pk},
            data_scope_service_update_data_scope_rule(Committed, cache, pk, rule_ids))

DataScopeDelete ==
    \E pks \in (SUBSET AdminScopeIds) \ {{}} :
        Run("data_scope_service.delete", pks, data_scope_service_delete(Committed, cache, pks))

DataRuleDelete ==
    \E pks \in (SUBSET AdminRuleIds) \ {{}} :
        Run("data_rule_service.delete", pks, data_rule_service_delete(Committed, cache, pks))

UserUpdate ==
    \E pk \in UserIds, roles \in SUBSET AdminRoleIds :
        Run("user_service.update", {pk}, user_service_update(Committed, cache, pk, roles))

\* the transaction block is left: the writes of the transaction are committed
Commit ==
    /\ tx.phase = "open"
    /\ store' = [user_roles |-> tx.db.user_roles, roles |-> tx.db.roles, scopes |-> tx.db.scopes]
    /\ rules' = tx.db.rules
    /\ scope_rules' = tx.db.scope_rules
    /\ tx' = Idle("none")
    /\ UNCHANGED <<user, request, route, settings, db_reads, result, cache>>

\* the roles of a user with their menus and scopes, as the committed rows give them
Snapshot(u) ==
    [roles |-> [r \in store.user_roles[u] |->
                   [status |-> store.roles[r].status,
                    menus |-> store.roles[r].menus,
                    scopes |-> [sc \in store.roles[r].scopes |-> store.scopes[sc].status]]]]

\* A request of user u whose key is not in the cache: the user is read from the store with
\* its roles, menus and scopes, and the snapshot is stored under the user's key
Hydrate ==
    /\ \E u \in UserIds :
          /\ u \notin DOMAIN cache
          /\ cache' = [k \in (DOMAIN cache) \cup {u} |-> IF k = u THEN Snapshot(u) ELSE cache[k]]
    /\ UNCHANGED <<rules, scope_rules, user, request, route, settings, db_reads, result, store, tx>>

\* the same request while no administrative operation is in flight
HydrateQuiescent == tx.phase = "idle" /\ Hydrate

NextAdmin ==
    \/ RoleUpdate \/ RoleUpdateMenu \/ RoleUpdateScope \/ RoleDelete
    \/ DataScopeUpdate \/ DataScopeUpdateRule \/ DataScopeDelete
    \/ DataRuleDelete \/ UserUpdate
    \/ Commit
    \/ HydrateQuiescent

\* Administrative operations one after the other, requests of the users between them
SpecAdmin == InitAdmin /\ [][NextAdmin]_vars

NextRace ==
    \/ RoleUpdate \/ RoleUpdateMenu \/ RoleUpdateScope
    \/ DataScopeUpdate \/ UserUpdate
    \/ Commit
    \/ Hydrate

\* The operations that delete cache keys, with requests of the users at any moment
SpecRace == InitAdmin /\ [][NextRace]_vars

----------------------------------------------------------------------------
(* Properties of the cache invalidation *)

\* the body of operation op has run and its transaction is not yet committed: the store
\* still holds the rows as they were before the operation
InFlight(op) == tx.phase = "open" /\ tx.op = op

Cached(u) == u \in DOMAIN cache

\* the users holding role r, a role with scope sc, a role with a scope containing rule
Holders(r) == {u \in UserIds : r \in store.user_roles[u]}

ScopeHolders(sc) ==
    {u \in UserIds : \E r \in store.user_roles[u] : sc \in store.roles[r].scopes}

RuleHolders(rule) ==
    {u \in UserIds : \E r \in store.user_roles[u] :
        \E sc \in store.roles[r].scopes : rule \in scope_rules[sc]}

\* C13: between the administrative operations, every snapshot in the cache records the
\* roles, menus and scopes that the store gives for its user.
C13_SnapshotsCurrent ==
    tx.phase = "idle" =>
        \A u \in DOMAIN cache :
            /\ DOMAIN cache[u].roles = store.user_roles[u]
            /\ \A r \in DOMAIN cache[u].roles :
                  /\ r \in DOMAIN store.roles
                  /\ cache[u].roles[r].status = store.roles[r].status
                  /\ cache[u].roles[r].menus = store.roles[r].menus
                  /\ DOMAIN cache[u].roles[r].scopes = store.roles[r].scopes
                  /\ \A sc \in DOMAIN cache[u].roles[r].scopes :
                        cache[u].roles[r].scopes[sc] = store.scopes[sc].status

\* C14: when data_rule_service.delete has removed rules, no user that held a role with a
\* scope containing one of them is cached any more, and no other user's key was deleted.
C14_RuleDeletePurges ==
    InFlight("data_rule_service.delete") =>
        LET reachable == UNION {RuleHolders(rule) : rule \in tx.pks}
        IN  /\ \A u \in reachable : ~Cached(u)
            /\ tx.evicted \subseteq reachable

\* C15: when role_service.delete has removed roles, no user that held one of them is
\* cached any more; when data_scope_service.delete has removed scopes, no user holding a
\* role with one of them is cached any more.
C15_DeletePurges ==
    /\ InFlight("role_service.delete")
          => \A u \in UNION {Holders(r) : r \in tx.pks} : ~Cached(u)
    /\ InFlight("data_scope_service.delete")
          => \A u \in UNION {ScopeHolders(sc) : sc \in tx.pks} : ~Cached(u)

\* C16: when update_data_scope_rule has changed the rules of a scope, no user holding a
\* role with that scope is cached any more, before the transaction is committed.
C16_ScopeRulePurges ==
    (InFlight("data_scope_service.update_data_scope_rule") /\ tx.db.scope_rules # scope_rules)
        => \A u \in UNION {ScopeHolders(sc) : sc \in tx.pks} : ~Cached(u)

\* C17: when role_service.update, update_role_menu or update_role_scope has run its body,
\* no user holding the role is cached any more, and when user_service.update has, the
\* updated user is not, in each case before the transaction is committed.
C17_UpdatePurges ==
    /\ (\/ InFlight("role_service.update")
        \/ InFlight("role_service.update_role_menu")
        \/ InFlight("role_service.update_role_scope"))
          => \A u \in UNION {Holders(r) : r \in tx.pks} : ~Cached(u)
    /\ InFlight("user_service.update") => \A u \in tx.pks : ~Cached(u)

\* update_role_menu has taken the menus from a role of two cached users and deleted both
\* keys, and its transaction is not yet committed
C17_Witness ==
    /\ InFlight("role_service.update_role_menu")
    /\ \E r \in tx.pks : Cardinality(Holders(r)) = 2 /\ tx.evicted = Holders(r)
                         /\ tx.db.roles[r].menus # store.roles[r].menus

\* C18: whatever the interleaving of the requests that read a principal from the store
\* and cache it, once the role and scope mutations have completed every cached snapshot
\* is the one the store gives.
C18_NoStaleAfterCommit ==
    tx.phase = "idle" => \A u \in DOMAIN cache : cache[u] = Snapshot(u)

----------------------------------------------------------------------------
(* The two buckets of the returned predicate *)

\* the comparison a rule with a known expression stands for
RuleComparison(rule) ==
    Comparison(rule.model, rule.column, rule.expression, rule.value,
               IF rule.expression \in {in_, not_in} THEN Split(rule.value) ELSE <<>>)

\* the comparisons of the returned predicate that sit in its bucket of the given kind
Bucket(kind) ==
    IF result.kind = "return" /\ result.value.kind = "or"
    THEN UNION {Range(result.value.args[i].args) :
                    i \in {j \in DOMAIN result.value.args : result.value.args[j].kind = kind}}
    ELSE {}

\* C23: when the call returns for a non-bypassed principal, every reachable rule with a
\* known expression has its comparison in exactly one of the two buckets, the AND-bucket
\* when its operator is AND and the OR-bucket when it is OR: never both, never neither,
\* whatever the stored value of the operator column.
C23_ExactlyOneBucket ==
    (Called /\ NonBypassed /\ result.kind = "return")
        => \A r \in {q \in ReachableRules : rules[q].expression \in 0..7} :
              LET c == RuleComparison(rules[r])
              IN  /\ (c \in Bucket("and")) # (c \in Bucket("or"))
                  /\ c \in Bucket("and") => rules[r].operator = AND
                  /\ c \in Bucket("or") => rules[r].operator = OR

----------------------------------------------------------------------------
(* Disabled scopes *)

\* the principal with every snapshot of scope s disabled
WithScopeDisabled(u, s) ==
    [u EXCEPT !.roles = [i \in DOMAIN u.roles |->
        [u.roles[i] EXCEPT !.scopes = [j \in DOMAIN u.roles[i].scopes |->
            IF u.roles[i].scopes[j].id = s
            THEN [u.roles[i].scopes[j] EXCEPT !.status = disable]
            ELSE u.roles[i].scopes[j]]]]]

\* C28: for a non-superuser whose roles all filter scopes, a disabled scope contributes no
\* rule: only enabled scopes are read, every comparison of the returned predicate comes
\* from a rule of an enabled scope, a principal whose scopes are all disabled gets the
\* trivially-true predicate, and disabling one more scope only removes comparisons.
C28_DisabledScopeContributesNothing ==
    (Called /\ ~user.is_superuser /\ AllRolesFilter)
        => /\ Range(db_reads) \subseteq CollectedScopes
           /\ CollectedScopes = {} => ReturnsTrue
           /\ result.kind = "return"
                => /\ Comparisons(result.value) \subseteq
                        {RuleComparison(rules[r]) :
                            r \in {q \in ReachableRules : rules[q].expression \in 0..7}}
                   /\ \A s \in CollectedScopes :
                        \A o \in Outcomes(WithScopeDisabled(user, s)) :
                            /\ o.kind = "return"
                            /\ Comparisons(o.value) \subseteq Comparisons(result.value)

\* a disabled scope with a rule was listed next to an enabled scope with another rule, and
\* only the enabled scope's rule was compiled
C28_Witness ==
    /\ Called /\ NonBypassed
    /\ Len(user.roles) = 2
    /\ user.roles[1].scopes = <<[id |-> 1, status |-> disable]>>
    /\ user.roles[2].scopes = <<[id |-> 2, status |-> enable]>>
    /\ scope_rules[1] = {1} /\ scope_rules[2] = {3}
    /\ result.kind = "return"
    /\ Comparisons(result.value) = {RuleComparison(rules[3])}

----------------------------------------------------------------------------
(* The permission-code check *)

\* the menu snapshots of all roles of the principal
UserMenus ==
    UNION {Range(user.roles[i].menus) : i \in DOMAIN user.roles}

\* the codes of the enabled menus of the principal
EnabledMenuCodes == UNION {CodesOf(menu.perms) : menu \in {m \in UserMenus : m.status = enable}}

\* C24: when rbac_verify decides at the code check, it allows only a code of an enabled
\* menu (a code attached only to disabled menus never allows, a null or empty code string
\* contributes no code), and an enabled menu with the code string 'a,b' makes it allow both
\* the required code 'a' and the required code 'b'.
C24_CodesOfEnabledMenus ==
    (Called /\ result.step = "code")
        => /\ Allowed => request.permission.value \in EnabledMenuCodes
           /\ ((\E menu \in UserMenus :
                    menu.status = enable /\ menu.perms = Str(<<"a", ",", "b">>))
                /\ request.permission.value \in {<<"a">>, <<"b">>})
                => Allowed

\* the required code 'b' was allowed through an enabled menu with the code string 'a,b'
C24_Witness ==
    /\ Called /\ result.step = "code" /\ Allowed
    /\ request.permission = Str(<<"b">>)
    /\ \E menu \in UserMenus : menu.status = enable /\ menu.perms = Str(<<"a", ",", "b">>)

\* C25: with menu-code mode on, an authenticated staff non-superuser with an enabled role
\* and a menu is allowed, without the menu codes being looked at, when the operation
\* declares no required code or when the required code is in RBAC_ROLE_MENU_EXCLUDE.
C25_NoCodeOrExcludedAllowed ==
    (Called /\ PastGate /\ settings.RBAC_ROLE_MENU_MODE
        /\ RoleCheckSatisfied /\ MenuCheckSatisfied /\ user.is_staff
        /\ (~Truthy(request.permission) \/ request.permission.value \in RBAC_ROLE_MENU_EXCLUDE))
        => Allowed /\ result.step \in {"no_code", "code_exclude"}

\* a principal none of whose menus has a code was allowed an operation that requires a code
\* of the exclusion list
C25_Witness ==
    /\ Called /\ PastGate /\ settings.RBAC_ROLE_MENU_MODE
    /\ RoleCheckSatisfied /\ MenuCheckSatisfied /\ user.is_staff
    /\ Truthy(request.permission) /\ request.permission.value \in RBAC_ROLE_MENU_EXCLUDE
    /\ EnabledMenuCodes = {}
    /\ Allowed /\ result.step = "code_exclude"

----------------------------------------------------------------------------
(* The dependencies of a route: RequestPermission and DependsRBAC *)

\* RequestPermission(value) declared without storing the code
RequestPermissionNoStore(value, req, conf) == [kind |-> "return", request |-> req]

\* RequestPermission(value).__call__(request): the request after the call, or an error
RequestPermission(value, req, conf) ==
    IF conf.RBAC_ROLE_MENU_MODE
    THEN IF value.type # "str"
         THEN Deny("permission", "ServerError", "Internal Server Error")
         ELSE [kind |-> "return", request |-> [req EXCEPT !.permission = Str(value.value)]]
    ELSE [kind |-> "return", request |-> req]

\* the values a route passes to RequestPermission: three strings and the integer 7 (a value
\* is written with its characters, whatever its type)
DeclaredValues ==
    {[type |-> "str", value |-> <<"a">>], [type |-> "str", value |-> <<"b">>],
     [type |-> "str", value |-> <<>>], [type |-> "int", value |-> <<"7">>]}

\* dependencies=[...] of a route, in the order of the declaration
DependencyLists ==
    {<<"RequestPermission", "DependsRBAC">>, <<"DependsRBAC", "RequestPermission">>,
     <<"DependsRBAC">>}

\* An authenticated request of a non-superuser to a route whose dependencies have not run
InitOrder ==
    /\ rules = SeedRules
    /\ scope_rules = [s \in ScopeIds |-> {}]
    /\ \E st \in BOOLEAN, shape \in RoleShapes :
       \E table \in [ReferencedMenus(shape) -> MenuRows] :
          user = [id |-> 1, is_superuser |-> FALSE, is_staff |-> st,
                  roles |-> RbacRoles(shape, table)]
    /\ request \in [path : {"/api/v1/sys/menus"}, auth_scopes : {TRUE},
                    method : {"GET", "POST"}, permission : {None}]
    /\ settings \in [RBAC_ROLE_MENU_MODE : BOOLEAN,
                     DATA_PERMISSION_MODELS : {DATA_PERMISSION_MODELS}]
    /\ db_reads = <<>>
    /\ result = NoResult
    /\ NoAdministration
    /\ route \in [dependencies : DependencyLists, value : DeclaredValues, ran : {<<>>}]

\* the next dependency of the route is Depends(RequestPermission(value)); an error ends the
\* request
RequestPermissionCall ==
    /\ route.dependencies # <<>>
    /\ Head(route.dependencies) = "RequestPermission"
    /\ LET o == RequestPermission(route.value, request, settings)
       IN  IF o.kind = "raise"
           THEN /\ result' = o
                /\ request' = request
                /\ route' = [route EXCEPT !.dependencies = <<>>,
                                          !.ran = Append(@, "RequestPermission")]
           ELSE /\ result' = result
                /\ request' = o.request
                /\ route' = [route EXCEPT !.dependencies = Tail(@),
                                          !.ran = Append(@, "RequestPermission")]
    /\ UNCHANGED <<rules, scope_rules, user, settings, db_reads, admin_vars>>

\* the next dependency of the route is DependsRBAC; an error ends the request
DependsRBACCall ==
    /\ route.dependencies # <<>>
    /\ Head(route.dependencies) = "DependsRBAC"
    /\ \E o \in RbacVerify(request, user, settings) :
          /\ result' = o
          /\ route' = [route EXCEPT
                          !.dependencies = IF o.kind = "raise" THEN <<>> ELSE Tail(@),
                          !.ran = Append(@, "DependsRBAC")]
    /\ UNCHANGED <<rules, scope_rules, user, request, settings, db_reads, admin_vars>>

NextOrder == RequestPermissionCall \/ DependsRBACCall

SpecOrder == InitOrder /\ [][NextOrder]_vars

\* the request passes every check of rbac_verify that comes before the code check
PassesEarlyChecks == PastGate /\ RoleCheckSatisfied /\ MenuCheckSatisfied /\ user.is_staff

\* C26: with menu-code mode on, when RequestPermission(code) ran before rbac_verify the code
\* is stored on the request and rbac_verify decides on exactly that code; when rbac_verify
\* ran first it finds no code and allows a request that passes the earlier checks without a
\* code check; and RequestPermission with a non-string code ends with ServerError.
C26_CodeEnforcedOnlyWhenDeclaredFirst ==
    settings.RBAC_ROLE_MENU_MODE
        => /\ (route.ran = <<"RequestPermission", "DependsRBAC">>)
                => /\ request.permission = Str(route.value.value)
                   /\ (PassesEarlyChecks /\ route.value.value # <<>>)
                        => /\ result.step = "code"
                           /\ Allowed <=> route.value.value \in EnabledMenuCodes
           /\ (route.ran # <<>> /\ Head(route.ran) = "DependsRBAC" /\ result.step # "permission")
                => /\ result.step \notin {"code", "code_exclude"}
                   /\ PassesEarlyChecks => Allowed /\ result.step = "no_code"
           /\ ("RequestPermission" \in Range(route.ran) /\ route.value.type # "str")
                => result.kind = "raise" /\ result.error = "ServerError"

\* the code 'b', which the principal does not hold, was declared after DependsRBAC and the
\* request was allowed without a code check
C26_Witness ==
    /\ settings.RBAC_ROLE_MENU_MODE
    /\ route.ran = <<"DependsRBAC", "RequestPermission">>
    /\ route.value = [type |-> "str", value |-> <<"b">>]
    /\ <<"b">> \notin EnabledMenuCodes
    /\ PassesEarlyChecks
    /\ Allowed /\ result.step = "no_code"
    /\ request.permission = Str(<<"b">>)

----------------------------------------------------------------------------
(* user_service.update_permission *)

MaxCalls == 2        \* calls of update_permission in a behaviour

PermissionTypes == {"superuser", "staff", "status", "multi_login"}

\* user_dao.set_super(db, pk, is_super), set_staff, set_status, set_multi_login: the column
\* of the row pk takes the value passed
user_dao_set_super(users, pk, is_super) == [users EXCEPT ![pk].is_superuser = is_super]

user_dao_set_staff(users, pk, is_staff) == [users EXCEPT ![pk].is_staff = is_staff]

user_dao_set_status(users, pk, status) == [users EXCEPT ![pk].status = status]

user_dao_set_multi_login(users, pk, multi_login) ==
    [users EXCEPT ![pk].is_multi_login = multi_login]

\* user_service.update_permission(request, pk, type) for a caller that passes
\* superuser_verify; caller is request.user.  user_dao.get(db, pk) returns the row of pk, so
\* 'pk != user.id' never holds and the multi_login case reads request.user.is_multi_login.
\* The key of the target is deleted after the transaction block.
user_service_update_permission(users, c, caller, pk, type) ==
    CASE type = "superuser" ->
            IF pk \notin DOMAIN users THEN Fail("NotFoundError")
            ELSE IF pk = caller.id THEN Fail("ForbiddenError")
            ELSE Ok(user_dao_set_super(users, pk, users[pk].status = 0), delete(c, {pk}))
      [] type = "staff" ->
            IF pk \notin DOMAIN users THEN Fail("NotFoundError")
            ELSE IF pk = caller.id THEN Fail("ForbiddenError")
            ELSE Ok(user_dao_set_staff(users, pk, ~users[pk].is_staff), delete(c, {pk}))
      [] type = "status" ->
            IF pk \notin DOMAIN users THEN Fail("NotFoundError")
            ELSE IF pk = caller.id THEN Fail("ForbiddenError")
            ELSE Ok(user_dao_set_status(users, pk, IF users[pk].status = 1 THEN 0 ELSE 1),
                    delete(c, {pk}))
      [] type = "multi_login" ->
            IF pk \notin DOMAIN users THEN Fail("NotFoundError")
            ELSE Ok(user_dao_set_multi_login(users, pk, ~caller.is_multi_login),
                    delete(c, {pk}))
      [] OTHER -> Fail("RequestError")

\* the rows of sys_user as far as update_permission reads and writes them
UserRows == [is_superuser : BOOLEAN, is_staff : BOOLEAN, status : {0, 1},
             is_multi_login : BOOLEAN]

\* User 1 is a superuser and staff member with status 1; the other users have any flags.
\* Every user's snapshot is cached.
InitPermission ==
    /\ rules = SeedRules
    /\ scope_rules = [s \in ScopeIds |-> {}]
    /\ \E rows \in [UserIds -> UserRows] :
          /\ rows[1].is_superuser /\ rows[1].is_staff /\ rows[1].status = 1
          /\ store = [user_roles |-> [u \in UserIds |-> {}], roles |-> <<>>, scopes |-> <<>>,
                      users |-> rows]
    /\ cache = [u \in UserIds |-> [roles |-> <<>>]]
    /\ tx = [phase |-> "idle", error |-> "none", calls |-> <<>>]
    /\ user = [id |-> 1, is_superuser |-> TRUE, is_staff |-> TRUE, roles |-> <<>>]
    /\ request = NoRequest
    /\ settings = [RBAC_ROLE_MENU_MODE |-> TRUE,
                   DATA_PERMISSION_MODELS |-> DATA_PERMISSION_MODELS]
    /\ db_reads = <<>>
    /\ result = NoResult
    /\ route = NoRoute

\* A request of user 1 to update_permission: request.user carries the committed flags of
\* user 1.  An exception inside the transaction block rolls back and skips the deletion.
UpdatePermission ==
    /\ Len(tx.calls) < MaxCalls
    /\ \E pk \in UserIds \cup {MaxUsers + 1}, type \in PermissionTypes \cup {"other"} :
          LET caller == [id |-> user.id,
                         is_multi_login |-> store.users[user.id].is_multi_login]
              r == user_service_update_permission(store.users, cache, caller, pk, type)
              call == [type |-> type, pk |-> pk, before |-> store.users,
                       error |-> IF r.kind = "ok" THEN "none" ELSE r.error]
          IN  /\ tx' = [phase |-> "idle", error |-> call.error,
                        calls |-> Append(tx.calls, call)]
              /\ IF r.kind = "ok"
                 THEN store' = [store EXCEPT !.users = r.db] /\ cache' = r.cache
                 ELSE UNCHANGED <<store, cache>>
    /\ UNCHANGED <<rules, scope_rules, user, request, route, settings, db_reads, result>>

NextPermission == UpdatePermission

SpecPermission == InitPermission /\ [][NextPermission]_vars

\* the last call of update_permission
LastCall == tx.calls[Len(tx.calls)]

\* C30: update_permission with type superuser, called by a superuser on another existing
\* user, negates the target's is_superuser and leaves its is_staff, status and
\* is_multi_login unchanged, so that two such calls in a row restore the row; called with
\* the caller's own id it fails with ForbiddenError and changes no row.
C30_SuperuserToggle ==
    (tx.calls # <<>> /\ LastCall.type = "superuser")
        => /\ (LastCall.pk \in UserIds /\ LastCall.pk # user.id)
                => /\ LastCall.error = "none"
                   /\ store.users[LastCall.pk] =
                        [LastCall.before[LastCall.pk] EXCEPT !.is_superuser = ~@]
                   /\ (Len(tx.calls) = 2 /\ tx.calls[1].type = "superuser"
                        /\ tx.calls[1].pk = LastCall.pk)
                        => store.users[LastCall.pk] = tx.calls[1].before[LastCall.pk]
           /\ LastCall.pk = user.id
                => LastCall.error = "ForbiddenError" /\ store.users = LastCall.before

----------------------------------------------------------------------------
(* Requests served between administrative operations *)

\* data_rule_dao.update(db, pk, obj): the fields of the rule become those of obj
data_rule_dao_update(db, pk, obj) == [db EXCEPT !.rules[pk] = obj]

\* data_rule_service.update(pk, obj) with obj.name the name the rule has: no cache key is
\* deleted
data_rule_service_update(db, c, pk, obj) ==
    IF pk \notin DOMAIN db.rules THEN Fail("NotFoundError")
    ELSE Ok(data_rule_dao_update(db, pk, obj), c)

\* the fields a rule is updated to: those of the first and of the third seed rule
RuleUpdates == {SeedRules[1], SeedRules[3]}

DataRuleUpdate ==
    \E pk \in AdminRuleIds, obj \in RuleUpdates :
        Run("data_rule_service.update", {pk}, data_rule_service_update(Committed, cache, pk, obj))

\* the elements of a set of integers in increasing order
Sorted(S) ==
    CHOOSE q \in [1..Cardinality(S) -> S] : \A i, j \in 1..Cardinality(S) : i < j => q[i] < q[j]

\* request.user as the cached snapshot of user u gives it; the roles of the administration
\* model filter scopes
Principal(u) ==
    [id |-> u, is_superuser |-> FALSE, is_staff |-> TRUE,
     roles |-> [i \in 1..Cardinality(DOMAIN cache[u].roles) |->
                  LET r == Sorted(DOMAIN cache[u].roles)[i]
                      role == cache[u].roles[r]
                  IN  [id |-> r, status |-> role.status, is_filter_scopes |-> TRUE,
                       menus |-> <<>>,
                       scopes |-> [j \in 1..Cardinality(DOMAIN role.scopes) |->
                                     LET sc == Sorted(DOMAIN role.scopes)[j]
                                     IN  [id |-> sc, status |-> role.scopes[sc]]]]]]

\* A request of a user whose snapshot is cached reaches crud_dept.get_all: the principal is
\* the cached snapshot, the scopes and rules are read from the committed rows
FilterRequest ==
    /\ \E u \in DOMAIN cache :
       \E scope_list \in Perms(DataScopeIds(Principal(u))) :
       \E prio \in Perms(RulesOf(DataScopeIds(Principal(u)))) :
          LET rule_lists == [s \in DOMAIN scope_rules |->
                                SelectSeq(prio, LAMBDA r : r \in scope_rules[s])]
              r == FilterDataPermission(Principal(u), scope_list, rule_lists)
          IN  /\ user' = Principal(u)
              /\ result' = r[1]
              /\ db_reads' = r[2]
    /\ UNCHANGED <<rules, scope_rules, request, route, settings, admin_vars>>

NextServe ==
    \/ DataRuleUpdate \/ DataScopeUpdate \/ DataScopeUpdateRule \/ DataScopeDelete
    \/ Commit
    \/ HydrateQuiescent
    \/ FilterRequest

\* Changes of rules and scopes one after the other, requests of the users between them
SpecServe == InitAdmin /\ [][NextServe]_vars

\* the outcome is the one the committed rows give: the scopes the principal collects were
\* read, and the predicate selects the rows the rules of these scopes select
FreshOutcome ==
    CollectedScopes \subseteq DOMAIN scope_rules
        => /\ Range(db_reads) = CollectedScopes
           /\ result.kind = "return"
           /\ \A row \in Rows : Eval(result.value, row) <=> ExpectedRow(row)

\* C22: every call of filter_data_permission reads the rule set of each collected scope
\* from the store: the outcome of a call is the one the committed rules give at the moment
\* of the call, also after a rule's fields or a scope's rule set changed and the
\* principal's snapshot stayed in the cache.
C22_RulesReadAtEveryCall == [][FilterRequest => FreshOutcome']_vars

\* rule 1 was updated to other fields while the snapshot of user 1 stayed cached, and the
\* call of user 1 compiled the new fields
C22_Witness ==
    /\ 1 \in DOMAIN rules /\ rules[1] = SeedRules[3]
    /\ user.id = 1 /\ 1 \in DOMAIN cache
    /\ result.kind = "return"
    /\ Comparisons(result.value) = {RuleComparison(SeedRules[3])}

\* C29: filter_data_permission ends by returning a predicate or by raising NotFoundError or
\* ServerError, also for a snapshot that lists as enabled a scope that
\* data_scope_service.delete removed.
C29_NoUnhandledError ==
    Called => \/ result.kind = "return"
              \/ result.kind = "raise" /\ result.error \in {"NotFoundError", "ServerError"}

----------------------------------------------------------------------------
(* The keys a role mutation leaves alone *)

RoleMutations ==
    {"role_service.update", "role_service.update_role_menu",
     "role_service.update_role_scope", "role_service.delete"}

\* C21: a role mutation deletes the snapshots of holders of the role only: the key of a
\* user that does not hold the role is still in the cache when the operation has run, also
\* when the decimal writing of a holder's id starts that user's id (holder 1, user 12) and
\* the operation is role_service.update or update_role_menu.
C21_NonHoldersKept ==
    (tx.phase = "open" /\ tx.op \in RoleMutations)
        => tx.evicted \subseteq UNION {Holders(r) : r \in tx.pks}

----------------------------------------------------------------------------
(* Cache deletions that fail *)

\* the users whose keys were deleted when the deletion for one of users raises
Partial(users) == (SUBSET users) \ {users}

\* the body of an operation whose writes gave ok.db: redis_client raises at the deletion for
\* one user, after the deletions that left one of caches were done
Interrupted(ok, caches) ==
    {[kind |-> "raise", error |-> "RedisError", db |-> ok.db, cache |-> c] : c \in caches}

RoleUpdateInterrupted ==
    \E pk \in AdminRoleIds, status \in {disable, enable} :
        LET ok == role_service_update(Committed, cache, pk, status)
        IN  /\ ok.kind = "ok"
            /\ \E r \in Interrupted(ok, {delete_prefix(cache, H) :
                                            H \in Partial(RoleUsers(ok.db, pk))}) :
                  Run("role_service.update", {pk}, r)

RoleUpdateMenuInterrupted ==
    \E pk \in AdminRoleIds, menus \in SUBSET AdminMenuIds :
        LET ok == role_service_update_role_menu(Committed, cache, pk, menus)
        IN  /\ ok.kind = "ok"
            /\ \E r \in Interrupted(ok, {delete_prefix(cache, H) :
                                            H \in Partial(RoleUsers(ok.db, pk))}) :
                  Run("role_service.update_role_menu", {pk}, r)

RoleUpdateScopeInterrupted ==
    \E pk \in AdminRoleIds, scopes \in SUBSET AdminScopeIds :
        LET ok == role_service_update_role_scope(Committed, cache, pk, scopes)
        IN  /\ ok.kind = "ok"
            /\ \E r \in Interrupted(ok, {delete(cache, H) :
                                            H \in Partial(RoleUsers(ok.db, pk))}) :
                  Run("role_service.update_role_scope", {pk}, r)

DataScopeUpdateInterrupted ==
    \E pk \in AdminScopeIds, status \in {disable, enable} :
        LET ok == data_scope_service_update(Committed, cache, pk, status)
        IN  /\ ok.kind = "ok"
            /\ \E r \in Interrupted(ok, {delete(cache, H) :
                            H \in Partial(UNION {RoleUsers(ok.db, role) :
                                                    role \in ScopeRoles(ok.db, pk)})}) :
                  Run("data_scope_service.update", {pk}, r)

CacheDeletionFails ==
    \/ RoleUpdateInterrupted \/ RoleUpdateMenuInterrupted
    \/ RoleUpdateScopeInterrupted \/ DataScopeUpdateInterrupted

NextFault ==
    \/ RoleUpdate \/ RoleUpdateMenu \/ RoleUpdateScope \/ DataScopeUpdate
    \/ RoleUpdateInterrupted \/ RoleUpdateMenuInterrupted
    \/ RoleUpdateScopeInterrupted \/ DataScopeUpdateInterrupted
    \/ UserUpdate
    \/ Commit
    \/ HydrateQuiescent

\* The operations that delete cache keys, with a cache store that can fail
SpecFault == InitAdmin /\ [][NextFault]_vars

\* C27: when a cache deletion fails during role_service.update, update_role_menu,
\* update_role_scope or data_scope_service.update, the operation ends with the error, no
\* deletion is tried again, and the write of the operation is not committed: the rows of
\* the store are those before the operation and no transaction is left open.
C27_FailedDeletionRollsBack ==
    [][CacheDeletionFails
        => /\ tx'.phase = "idle" /\ tx'.error = "RedisError"
           /\ store' = store /\ rules' = rules /\ scope_rules' = scope_rules]_vars

\* an operation on the role of users 1 and 12 failed at the key of user 1 after it had
\* deleted the key of user 12, and the role has the status, menus and scopes it had
C27_Witness ==
    /\ tx.phase = "idle" /\ tx.error = "RedisError"
    /\ Holders(1) = {1, 12}
    /\ Cached(1) /\ ~Cached(12)
    /\ store.roles[1] = [status |-> enable, menus |-> AdminMenuIds, scopes |-> AdminScopeIds]

====
